---------------------------- MODULE Spec2Model ----------------------------
(***************************************************************************)
(* The streaming chat hook useChatWebSocket (src/src/hooks/                *)
(* useChatWebSocket.ts): the incremental response parser, the completion   *)
(* latch and fingerprint, the message list, the admin response router and  *)
(* the loading timeout, as one state machine.                              *)
(*                                                                         *)
(* Text.  A JavaScript string is a sequence of pieces.  A piece is a JSON  *)
(* lexeme ("{", ":", a quoted string, null), a blank, the two parts of a   *)
(* quoted string cut by a fragment boundary, or a filler piece that stands *)
(* for a long run of ordinary characters, so that buffers of 10,000 and    *)
(* 10,001 characters are small values.  Width is the length in characters. *)
(*                                                                         *)
(* Events.  Every handler runs to completion (one JavaScript task); React  *)
(* applies the queued state updates of a handler, renders, and runs the    *)
(* effects before the next event is handled.  The events are the calls of  *)
(* sendMessage, the message, close and open events of the socket, and the  *)
(* loading and reconnect timers.                                           *)
(***************************************************************************)
EXTENDS Integers, Sequences, FiniteSets, TLC

(***************************************************************************)
(* Bounds of the model.                                                    *)
(***************************************************************************)
MaxSends == 2          \* sendMessage calls in one behaviour
MaxRouterSends == 1    \* the same, in the behaviours of SpecRouter
MaxSockets == 2        \* WebSocket objects that exist at a time

(***************************************************************************)
(* Program constants.                                                      *)
(***************************************************************************)
MaxBufferLength == 10000      \* useChatWebSocket.ts:203

(***************************************************************************)
(* Strings.                                                                *)
(***************************************************************************)
Blank == " "
Filler == "#"                 \* a run of FillerWidth ordinary characters
FillerWidth == MaxBufferLength \div 2
LongString == "\"##x\""       \* the quoted string of two fillers and an x

\* String.prototype.length of one piece.
PieceWidth(p) ==
    CASE p = Filler -> FillerWidth
      [] p = LongString -> 2 * FillerWidth + 3
      [] OTHER -> Len(p)

RECURSIVE Width(_)
\* String.prototype.length.
Width(t) == IF t = <<>> THEN 0 ELSE PieceWidth(Head(t)) + Width(Tail(t))

\* The quoted strings of the model: <<lexeme, the string it denotes>>.
StringTable ==
    { <<"\"reply\"", <<"reply">>>>, <<"\"type\"", <<"type">>>>,
      <<"\"config\"", <<"config">>>>, <<"\"objects\"", <<"objects">>>>,
      <<"\"workflows\"", <<"workflows">>>>, <<"\"layout\"", <<"layout">>>>,
      <<"\"admin\"", <<"admin">>>>, <<"\"user\"", <<"user">>>>,
      <<"\"continue\"", <<"continue">>>>, <<"\"Hi\"", <<"Hi">>>>,
      <<"\"Account\"", <<"Account">>>>,
      <<"\"\"", <<>>>>, <<LongString, <<Filler, Filler, "x">>>> }

StringLexemes == { e[1] : e \in StringTable }

\* The string a quoted lexeme denotes.
Unquote(lex) == (CHOOSE e \in StringTable : e[1] = lex)[2]

\* The quoted lexeme of a string (JSON.stringify of a string).
Quote(str) ==
    IF \E e \in StringTable : e[2] = str
    THEN (CHOOSE e \in StringTable : e[2] = str)[1]
    ELSE "\"?\""

\* A fragment boundary inside a lexeme: <<lexeme, first part, second part>>.
SplitTable ==
    { <<"\"reply\"", "\"repl", "y\"">>, <<"\"Hi\"", "\"H", "i\"">> }

Last(t) == t[Len(t)]
Front(t) == SubSeq(t, 1, Len(t) - 1)

\* a + b on strings: the two parts of a cut lexeme meet again.
Concat(a, b) ==
    IF a # <<>> /\ b # <<>> /\ \E e \in SplitTable : e[2] = Last(a) /\ e[3] = Head(b)
    THEN Front(a) \o <<(CHOOSE e \in SplitTable : e[2] = Last(a) /\ e[3] = Head(b))[1]>>
         \o Tail(b)
    ELSE a \o b

RECURSIVE TrimStart(_)
TrimStart(t) == IF t # <<>> /\ Head(t) = Blank THEN TrimStart(Tail(t)) ELSE t

RECURSIVE TrimEnd(_)
TrimEnd(t) == IF t # <<>> /\ Last(t) = Blank THEN TrimEnd(Front(t)) ELSE t

\* String.prototype.trim.
Trim(t) == TrimEnd(TrimStart(t))

(***************************************************************************)
(* JSON values: strings, null, arrays and objects (members in insertion    *)
(* order, as JSON.stringify and Object.entries see them).                  *)
(***************************************************************************)
Undefined == [k |-> "undefined"]
Null == [k |-> "null"]
Str(s) == [k |-> "str", s |-> s]
Arr(e) == [k |-> "arr", e |-> e]
Obj(m) == [k |-> "obj", m |-> m]

\* obj[key] = val on an object's member list: a repeated key keeps its place.
PutMember(m, key, val) ==
    IF \E i \in 1..Len(m) : m[i][1] = key
    THEN [i \in 1..Len(m) |-> IF m[i][1] = key THEN <<key, val>> ELSE m[i]]
    ELSE Append(m, <<key, val>>)

RECURSIVE ParseValue(_, _), ParseMembers(_, _, _), ParseElements(_, _, _)

ParseFail == [ok |-> FALSE, v |-> Undefined, i |-> 0]

\* The JSON value that starts at piece i of t (blanks removed).
ParseValue(t, i) ==
    IF i > Len(t) THEN ParseFail
    ELSE IF t[i] \in StringLexemes THEN [ok |-> TRUE, v |-> Str(Unquote(t[i])), i |-> i + 1]
    ELSE IF t[i] = "null" THEN [ok |-> TRUE, v |-> Null, i |-> i + 1]
    ELSE IF t[i] = "{" THEN
        IF i + 1 <= Len(t) /\ t[i + 1] = "}"
        THEN [ok |-> TRUE, v |-> Obj(<<>>), i |-> i + 2]
        ELSE ParseMembers(t, i + 1, <<>>)
    ELSE IF t[i] = "[" THEN
        IF i + 1 <= Len(t) /\ t[i + 1] = "]"
        THEN [ok |-> TRUE, v |-> Arr(<<>>), i |-> i + 2]
        ELSE ParseElements(t, i + 1, <<>>)
    ELSE ParseFail

\* The members of an object from piece i on: "key" : value , ... }
ParseMembers(t, i, acc) ==
    IF i + 1 > Len(t) \/ t[i] \notin StringLexemes \/ t[i + 1] # ":" THEN ParseFail
    ELSE LET r == ParseValue(t, i + 2) IN
         IF ~r.ok \/ r.i > Len(t) THEN ParseFail
         ELSE LET m == PutMember(acc, Unquote(t[i]), r.v) IN
              IF t[r.i] = "}" THEN [ok |-> TRUE, v |-> Obj(m), i |-> r.i + 1]
              ELSE IF t[r.i] = "," THEN ParseMembers(t, r.i + 1, m)
              ELSE ParseFail

\* The elements of an array from piece i on: value , ... ]
ParseElements(t, i, acc) ==
    LET r == ParseValue(t, i) IN
    IF ~r.ok \/ r.i > Len(t) THEN ParseFail
    ELSE IF t[r.i] = "]" THEN [ok |-> TRUE, v |-> Arr(Append(acc, r.v)), i |-> r.i + 1]
    ELSE IF t[r.i] = "," THEN ParseElements(t, r.i + 1, Append(acc, r.v))
    ELSE ParseFail

NotBlank(p) == p # Blank

\* JSON.parse: ok is FALSE where JSON.parse throws a SyntaxError.
JSONparse(t) ==
    LET toks == SelectSeq(t, NotBlank)
        r == ParseValue(toks, 1)
    IN IF r.ok /\ r.i = Len(toks) + 1 THEN [ok |-> TRUE, v |-> r.v]
       ELSE [ok |-> FALSE, v |-> Undefined]

RECURSIVE JSONstringify(_), StringifyMembers(_), StringifyElements(_)

\* JSON.stringify: no blanks, members in insertion order.
JSONstringify(v) ==
    CASE v.k = "str" -> <<Quote(v.s)>>
      [] v.k = "null" -> <<"null">>
      [] v.k = "arr" -> <<"[">> \o StringifyElements(v.e) \o <<"]">>
      [] v.k = "obj" -> <<"{">> \o StringifyMembers(v.m) \o <<"}">>
      [] OTHER -> <<>>

StringifyMembers(m) ==
    IF m = <<>> THEN <<>>
    ELSE <<Quote(m[1][1]), ":">> \o JSONstringify(m[1][2])
         \o (IF Len(m) > 1 THEN <<",">> \o StringifyMembers(Tail(m)) ELSE <<>>)

StringifyElements(e) ==
    IF e = <<>> THEN <<>>
    ELSE JSONstringify(e[1])
         \o (IF Len(e) > 1 THEN <<",">> \o StringifyElements(Tail(e)) ELSE <<>>)

\* value[key]: undefined on a value that is no object or has no such member.
Property(v, key) ==
    IF v.k = "obj" /\ \E i \in 1..Len(v.m) : v.m[i][1] = key
    THEN v.m[CHOOSE i \in 1..Len(v.m) : v.m[i][1] = key][2]
    ELSE Undefined

\* JavaScript truthiness: undefined, null and the empty string are falsy.
Truthy(v) ==
    CASE v.k = "undefined" -> FALSE
      [] v.k = "null" -> FALSE
      [] v.k = "str" -> v.s # <<>>
      [] OTHER -> TRUE

(***************************************************************************)
(* The state of one mounted useChatWebSocket hook and of its environment.  *)
(***************************************************************************)
VARIABLES
    messages,                     \* useState<Message[]>, line 28
    isConnected,                  \* useState(false), line 29
    isLoading,                    \* useState(false), line 30
    sockets,                      \* the state of each WebSocket object
    wsRef,                        \* the socket of wsRef.current, 0 for null
    reconnectTimers,              \* the pending timers of line 73
    currentMessageRef,            \* the buffer, line 32
    currentAssistantMessageRef,   \* index in messages of the object, 0 for null
    reconnectTimeoutRef,          \* the timer handle in the ref, 0 for null
    lastProcessedResponseRef,     \* the fingerprint, line 35
    responseCompletedRef,         \* the closed latch, line 36
    loadingTimer,                 \* 0, or the send that started the pending timeout
    registered,                   \* the sections whose consumer prop is given
    throwing,                     \* the consumers that throw when invoked
    calls,                        \* the consumers invoked so far, in order
    frames,                       \* the frames handed to WebSocket.send
    wire,                         \* server text not yet delivered to the client
    menu,                         \* the responses the server answers with
    sendLimit,                    \* the sendMessage calls of this behaviour
    clock                         \* Date.now()

hookVars == <<messages, isLoading, currentMessageRef, currentAssistantMessageRef,
              lastProcessedResponseRef, responseCompletedRef, calls, clock>>
connVars == <<isConnected, sockets, wsRef, reconnectTimeoutRef, reconnectTimers>>
envVars == <<registered, throwing, menu, sendLimit>>
vars == <<hookVars, connVars, envVars, loadingTimer, frames, wire>>

Sections == {"objects", "workflows", "layout"}

NoMessage == 0
NoSocket == 0
NoTimer == 0

\* The WebSocket objects.  A socket is "NONE" before it is constructed;
\* "FAILING" is the readyState CLOSING of a socket closed before it opened.
SocketIds == 1..MaxSockets

\* What the handlers of the hook read and write.
Hook ==
    [ messages |-> messages,
      isLoading |-> isLoading,
      currentMessageRef |-> currentMessageRef,
      currentAssistantMessageRef |-> currentAssistantMessageRef,
      lastProcessedResponseRef |-> lastProcessedResponseRef,
      responseCompletedRef |-> responseCompletedRef,
      calls |-> calls,
      clock |-> clock ]

\* The interface Message, lines 3-13; parsedResponse is <<>> when absent.
NewMessage(now, sender, content) ==
    [ id |-> now, sender |-> sender, content |-> content, timestamp |-> now,
      parsedResponse |-> <<>> ]

\* The turn a handler runs in: the user messages sent so far.
TurnOf(msgs) == Cardinality({ i \in 1..Len(msgs) : msgs[i].sender = "user" })

\* The string a reply is displayed as (a reply that is no string is shown
\* as its String() coercion).
ContentOf(v) == IF v.k = "str" THEN v.s ELSE <<"[object]">>

(***************************************************************************)
(* handleAdminResponse, lines 85-130.  The result is the state reached and *)
(* whether an exception left the function.                                 *)
(***************************************************************************)
\* Object.entries(section).map(([name, data]) => (data as any).fields ...)
\* throws a TypeError on an entry whose data is null.
EntriesThrow(section) ==
    \/ section.k = "obj" /\ \E i \in 1..Len(section.m) : section.m[i][2].k = "null"
    \/ section.k = "arr" /\ \E i \in 1..Len(section.e) : section.e[i].k = "null"

\* What a consumer finds when it is invoked: the refs, the loading flag as
\* the handler has set it so far, and the message in progress.
Seen(s) ==
    [ responseCompletedRef |-> s.responseCompletedRef,
      lastProcessedResponseRef |-> s.lastProcessedResponseRef,
      isLoading |-> s.isLoading,
      message |-> IF s.currentAssistantMessageRef = NoMessage THEN <<>>
                  ELSE <<s.messages[s.currentAssistantMessageRef]>> ]

\* One consumer invocation, recorded with the turn it happens in.
Invoke(s, name) ==
    [s EXCEPT !.calls = Append(@, [consumer |-> name, turn |-> TurnOf(s.messages),
                                   seen |-> Seen(s)])]

\* if (config?.<name> && on<Name>) { map the entries; on<Name>(...) }
DispatchSection(r, config, name, mapped) ==
    IF r.threw \/ ~Truthy(Property(config, <<name>>)) \/ name \notin registered THEN r
    ELSE IF mapped /\ EntriesThrow(Property(config, <<name>>))
         THEN [r EXCEPT !.threw = TRUE]
    ELSE [s |-> Invoke(r.s, name), threw |-> name \in throwing]

handleAdminResponse(s, response) ==
    LET config == Property(response, <<"config">>)                        \* 89
        r0 == [s |-> s, threw |-> FALSE]
        r1 == DispatchSection(r0, config, "objects", TRUE)                 \* 91-103
        r2 == DispatchSection(r1, config, "workflows", TRUE)               \* 105-120
        r3 == DispatchSection(r2, config, "layout", FALSE)                 \* 122-125
    IN IF r3.threw THEN r3
       ELSE [r3 EXCEPT !.s.isLoading = FALSE,                              \* 128
                       !.s.currentAssistantMessageRef = NoMessage]         \* 129

(***************************************************************************)
(* handleStreamingMessage, lines 132-208.                                  *)
(***************************************************************************)
\* Variants of the latch test: one that never stops a fragment, one that
\* stops fragments only while the hook is loading.
AlreadyCompleted_Never(s) == FALSE
AlreadyCompleted_WhileLoading(s) == s.responseCompletedRef /\ s.isLoading

\* Lines 134-136: the latch.
AlreadyCompleted(s) == s.responseCompletedRef

\* Lines 141-161: create the assistant message, or update the one in progress
\* (the object of the ref is the object in the list) and the last message.
ShowBuffer(s) ==
    IF s.currentAssistantMessageRef = NoMessage
    THEN [s EXCEPT !.messages = Append(@, NewMessage(s.clock, "assistant", s.currentMessageRef)),
                   !.currentAssistantMessageRef = Len(s.messages) + 1,
                   !.clock = @ + 1]
    ELSE LET n == Len(s.messages)
             m1 == [s.messages EXCEPT ![s.currentAssistantMessageRef].content =
                                          s.currentMessageRef]
         IN [s EXCEPT !.messages =
                IF n > 0 /\ m1[n].sender = "assistant"
                THEN [m1 EXCEPT ![n].content = s.currentMessageRef]
                ELSE m1]

\* A variant of line 167 that tests the type alone.
IsCompleteResponse_TypeOnly(p) == p.ok /\ Truthy(Property(p.v, <<"type">>))

\* A variant of line 167 that takes any JSON text for a complete response.
IsCompleteResponse_AnyJSON(p) == p.ok

\* Line 167: if (parsed.type && parsed.reply); reading a property of null
\* throws, which the catch of line 199 swallows.
IsCompleteResponse(p) ==
    p.ok /\ Truthy(Property(p.v, <<"type">>)) /\ Truthy(Property(p.v, <<"reply">>))

\* Line 170: the fingerprint test.
IsDuplicate(s, responseKey) == s.lastProcessedResponseRef = responseKey

\* A variant that routes a response of any kind.
IsAdmin_Any(parsed) == TRUE

\* Line 191.
IsAdmin(parsed) == Property(parsed, <<"type">>) = Str(<<"admin">>)

\* A variant with the comparison >= in place of >.
ExceedsCeiling_AtLeast(buffer) == Width(buffer) >= MaxBufferLength

\* Line 203.
ExceedsCeiling(buffer) == Width(buffer) > MaxBufferLength

\* A variant that attaches the parsed response and leaves the text as it is.
Commit_KeepsText(s, parsed, responseKey) ==
    LET n == Len(s.messages)
        m1 == IF n > 0 /\ s.messages[n].sender = "assistant"
              THEN [s.messages EXCEPT ![n].parsedResponse = <<parsed>>]
              ELSE s.messages
        ref == s.currentAssistantMessageRef
    IN [s EXCEPT !.lastProcessedResponseRef = responseKey,
                 !.responseCompletedRef = TRUE,
                 !.messages = IF ref # NoMessage
                              THEN [m1 EXCEPT ![ref].parsedResponse = <<parsed>>]
                              ELSE m1]

\* Lines 173-189: record the fingerprint, set the latch, attach the parsed
\* response to the last message and to the object of the ref.
Commit(s, parsed, responseKey) ==
    LET n == Len(s.messages)
        reply == ContentOf(Property(parsed, <<"reply">>))
        m1 == IF n > 0 /\ s.messages[n].sender = "assistant"
              THEN [s.messages EXCEPT ![n].parsedResponse = <<parsed>>,
                                      ![n].content = reply]
              ELSE s.messages
        ref == s.currentAssistantMessageRef
    IN [s EXCEPT !.lastProcessedResponseRef = responseKey,
                 !.responseCompletedRef = TRUE,
                 !.messages = IF ref # NoMessage
                              THEN [m1 EXCEPT ![ref].parsedResponse = <<parsed>>,
                                              ![ref].content = reply]
                              ELSE m1,
                 !.currentMessageRef = IF ref # NoMessage THEN reply ELSE @]

\* Lines 202-207.
CheckCeiling(s) ==
    IF ExceedsCeiling(s.currentMessageRef)
    THEN [s EXCEPT !.isLoading = FALSE,
                   !.currentAssistantMessageRef = NoMessage,
                   !.responseCompletedRef = TRUE]
    ELSE s

\* A variant that routes an admin response before it commits it.
handleStreamingMessage_DispatchFirst(s, chunk) ==
    IF AlreadyCompleted(s) THEN s
    ELSE
    LET s1 == ShowBuffer([s EXCEPT !.currentMessageRef = Concat(@, chunk)])
        p == JSONparse(Trim(s1.currentMessageRef))
    IN IF IsCompleteResponse(p)
       THEN LET responseKey == JSONstringify(p.v) IN
            IF IsDuplicate(s1, responseKey) THEN s1
            ELSE IF IsAdmin(p.v)
                 THEN LET r == handleAdminResponse(s1, p.v) IN
                      IF r.threw THEN CheckCeiling(r.s)
                      ELSE Commit(r.s, p.v, responseKey)
                 ELSE [Commit(s1, p.v, responseKey) EXCEPT
                          !.isLoading = FALSE,
                          !.currentAssistantMessageRef = NoMessage]
       ELSE CheckCeiling(s1)

handleStreamingMessage(s, chunk) ==
    IF AlreadyCompleted(s) THEN s
    ELSE
    LET s1 == ShowBuffer([s EXCEPT !.currentMessageRef = Concat(@, chunk)])  \* 139-161
        p == JSONparse(Trim(s1.currentMessageRef))                          \* 166
    IN IF IsCompleteResponse(p)
       THEN LET responseKey == JSONstringify(p.v) IN                         \* 169
            IF IsDuplicate(s1, responseKey) THEN s1                          \* 170-172
            ELSE LET s2 == Commit(s1, p.v, responseKey) IN
                 IF IsAdmin(p.v)
                 THEN LET r == handleAdminResponse(s2, p.v) IN               \* 192
                      IF r.threw THEN CheckCeiling(r.s)                      \* 199-207
                      ELSE r.s
                 ELSE [s2 EXCEPT !.isLoading = FALSE,                        \* 194
                                 !.currentAssistantMessageRef = NoMessage]   \* 195
       ELSE CheckCeiling(s1)

\* The state a handler leaves, written back.
Install(s) ==
    /\ messages' = s.messages
    /\ isLoading' = s.isLoading
    /\ currentMessageRef' = s.currentMessageRef
    /\ currentAssistantMessageRef' = s.currentAssistantMessageRef
    /\ lastProcessedResponseRef' = s.lastProcessedResponseRef
    /\ responseCompletedRef' = s.responseCompletedRef
    /\ calls' = s.calls
    /\ clock' = s.clock

\* The effect of lines 264-274 after the render that follows a handler: it
\* runs only when isLoading changed; its cleanup clears the pending timer.
LoadingEffect(before, after, turn) ==
    IF before = after THEN loadingTimer
    ELSE IF after THEN turn ELSE 0

(***************************************************************************)
(* The server: the texts it streams in answer to a request.                *)
(***************************************************************************)
\* { "reply": <reply>, "type": <type> [, "config": <config>] }
Response(reply, type, config) ==
    <<"{", "\"reply\"", ":", reply, ",", "\"type\"", ":", type>>
    \o (IF config = <<>> THEN <<>> ELSE <<",", "\"config\"", ":">> \o config)
    \o <<"}">>

SectionText(name) ==
    CASE name = "objects" -> <<"\"objects\"", ":", "{", "}">>
      [] name = "workflows" -> <<"\"workflows\"", ":", "{", "}">>
      [] name = "layout" -> <<"\"layout\"", ":", "[", "]">>

\* A config object with the sections of present, in the order objects,
\* workflows, layout.
ConfigText(present) ==
    LET o == IF "objects" \in present THEN SectionText("objects") ELSE <<>>
        w == IF "workflows" \in present THEN SectionText("workflows") ELSE <<>>
        l == IF "layout" \in present THEN SectionText("layout") ELSE <<>>
        ow == IF o # <<>> /\ w # <<>> THEN o \o <<",">> \o w ELSE o \o w
        owl == IF ow # <<>> /\ l # <<>> THEN ow \o <<",">> \o l ELSE ow \o l
    IN <<"{">> \o owl \o <<"}">>

UserReply == Response("\"Hi\"", "\"user\"", <<>>)
UserReplyPadded == <<Blank>> \o UserReply \o <<Blank>>
\* The server sends the closing frame of its response twice.
UserReplyResent == UserReply \o <<"}">>
\* Responses of kind user and continue that carry config sections.
UserReplyWithConfig == Response("\"Hi\"", "\"user\"", ConfigText({"objects", "layout"}))
ContinueReplyWithConfig == Response("\"Hi\"", "\"continue\"", ConfigText({"workflows"}))
EmptyReply == Response("\"\"", "\"user\"", <<>>)
LongReply == Response(LongString, "\"user\"", <<>>)
PlainText == <<Filler, Filler, "x", "x">>
\* A JSON object without a reply field.
TypeOnly == <<"{", "\"type\"", ":", "\"user\"", "}">>
AdminReply(present) == Response("\"Hi\"", "\"admin\"", ConfigText(present))
\* The server sends the closing frame of an admin response twice.
AdminReplyResent == AdminReply(Sections) \o <<"}">>

Splittable(p) == \E e \in SplitTable : e[1] = p
FirstPart(p) == (CHOOSE e \in SplitTable : e[1] = p)[2]
SecondPart(p) == (CHOOSE e \in SplitTable : e[1] = p)[3]

\* The ways the server cuts the text w into a first fragment and the rest:
\* after any piece, or inside a lexeme of SplitTable.
Cuts(w) ==
    { <<SubSeq(w, 1, k), SubSeq(w, k + 1, Len(w))>> : k \in 1..Len(w) }
    \cup { <<Append(SubSeq(w, 1, k - 1), FirstPart(w[k])),
             <<SecondPart(w[k])>> \o SubSeq(w, k + 1, Len(w))>> :
           k \in { j \in 1..Len(w) : Splittable(w[j]) } }

\* What the user types.
UserTexts == { <<"hello">> }

(***************************************************************************)
(* The initial state: the hook is mounted, the effect of lines 256-261 has *)
(* called connect() and the socket has opened (lines 48-56).               *)
(***************************************************************************)
Mounted ==
    /\ messages = <<>>
    /\ isConnected = TRUE
    /\ sockets = [i \in SocketIds |-> IF i = 1 THEN "OPEN" ELSE "NONE"]
    /\ isLoading = FALSE
    /\ wsRef = 1
    /\ currentMessageRef = <<>>
    /\ currentAssistantMessageRef = NoMessage
    /\ reconnectTimeoutRef = NoTimer
    /\ reconnectTimers = {}
    /\ lastProcessedResponseRef = <<>>
    /\ responseCompletedRef = FALSE
    /\ loadingTimer = 0
    /\ calls = <<>>
    /\ frames = <<>>
    /\ wire = <<>>
    /\ clock = 1

\* The conversations of Spec: every consumer registered, none throws.
StreamMenus ==
    { {UserReply}, {UserReplyPadded}, {UserReplyResent}, {LongReply}, {PlainText},
      {TypeOnly} }

Init ==
    /\ Mounted
    /\ menu \in StreamMenus
    /\ registered = Sections
    /\ throwing = {}
    /\ sendLimit = MaxSends

\* The conversations of SpecRouter: an admin response with any sections and
\* any registration of well-behaved consumers; the admin response with every
\* section, every consumer registered and one of them throwing; a resent
\* closing frame, and responses of the other kinds with config sections.
InitRouter ==
    /\ Mounted
    /\ \/ /\ menu \in { {AdminReply(present)} : present \in SUBSET Sections }
          /\ registered \in SUBSET Sections
          /\ throwing = {}
       \/ /\ menu = {AdminReply(Sections)}
          /\ registered = Sections
          /\ throwing \in { {c} : c \in Sections }
       \/ /\ menu \in { {AdminReplyResent}, {UserReplyWithConfig},
                       {ContinueReplyWithConfig}, {EmptyReply} }
          /\ registered = Sections
          /\ throwing = {}
    /\ sendLimit = MaxRouterSends

(***************************************************************************)
(* sendMessage, lines 210-244.  The frame goes out when the socket of      *)
(* wsRef is open, and the server puts its answer on the wire; send() on a  *)
(* closing or closed socket discards the frame and send() on a connecting  *)
(* socket throws, in both cases after the state was written.               *)
(***************************************************************************)
\* wsRef.current?.readyState === WebSocket.OPEN
IsOpen(ss, ref) == ref # NoSocket /\ ss[ref] = "OPEN"

\* A variant that leaves the assistant message of the last request in the ref.
SendMessage_KeepsRef(content) ==
    /\ TurnOf(messages) < sendLimit
    /\ ~(wsRef = NoSocket \/ ~isConnected)                               \* 211-214
    /\ messages' = Append(messages, NewMessage(clock, "user", content))   \* 216-223
    /\ clock' = clock + 1
    /\ isLoading' = TRUE                                                  \* 224
    /\ currentMessageRef' = <<>>                                          \* 225
    /\ responseCompletedRef' = FALSE                                      \* 227
    /\ loadingTimer' = LoadingEffect(isLoading, TRUE, TurnOf(messages) + 1)
    /\ IF IsOpen(sockets, wsRef)                                          \* 230-243
       THEN /\ frames' = Append(frames, << [role |-> "user", content |-> content] >>)
            /\ \E answer \in menu : wire' = wire \o answer
       ELSE UNCHANGED <<frames, wire>>
    /\ UNCHANGED <<currentAssistantMessageRef, lastProcessedResponseRef, calls, connVars,
                   envVars>>

SendMessage(content) ==
    /\ TurnOf(messages) < sendLimit
    /\ ~(wsRef = NoSocket \/ ~isConnected)                               \* 211-214
    /\ messages' = Append(messages, NewMessage(clock, "user", content))   \* 216-223
    /\ clock' = clock + 1
    /\ isLoading' = TRUE                                                  \* 224
    /\ currentMessageRef' = <<>>                                          \* 225
    /\ currentAssistantMessageRef' = NoMessage                            \* 226
    /\ responseCompletedRef' = FALSE                                      \* 227
    /\ loadingTimer' = LoadingEffect(isLoading, TRUE, TurnOf(messages) + 1)
    /\ IF IsOpen(sockets, wsRef)                                          \* 230-243
       THEN /\ frames' = Append(frames, << [role |-> "user", content |-> content] >>)
            /\ \E answer \in menu : wire' = wire \o answer
       ELSE UNCHANGED <<frames, wire>>
    /\ UNCHANGED <<lastProcessedResponseRef, calls, connVars, envVars>>

(***************************************************************************)
(* ws.onmessage, lines 58-64: the next fragment of the wire arrives.       *)
(***************************************************************************)
Deliver(chunk) ==
    LET s == handleStreamingMessage(Hook, chunk) IN
    /\ Install(s)
    /\ loadingTimer' = LoadingEffect(isLoading, s.isLoading, TurnOf(messages))
    /\ UNCHANGED <<frames, connVars, envVars>>

OnMessage ==
    /\ IsOpen(sockets, wsRef)
    /\ wire # <<>>
    /\ \E cut \in Cuts(wire) :
          /\ Deliver(cut[1])
          /\ wire' = cut[2]

(***************************************************************************)
(* The timeout of lines 266-270 fires.                                     *)
(***************************************************************************)
\* A variant whose callback clears isLoading and leaves the ref alone.
LoadingTimeout_KeepsRef ==
    /\ loadingTimer # 0
    /\ isLoading' = FALSE
    /\ loadingTimer' = 0
    /\ UNCHANGED <<messages, currentMessageRef, currentAssistantMessageRef,
                   lastProcessedResponseRef, responseCompletedRef, calls, clock, frames,
                   wire, connVars, envVars>>

\* A variant whose callback drops the ref and leaves isLoading alone.
LoadingTimeout_KeepsLoading ==
    /\ loadingTimer # 0
    /\ currentAssistantMessageRef' = NoMessage
    /\ loadingTimer' = 0
    /\ UNCHANGED <<messages, isLoading, currentMessageRef, lastProcessedResponseRef,
                   responseCompletedRef, calls, clock, frames, wire,
                   connVars, envVars>>

LoadingTimeout ==
    /\ loadingTimer # 0
    /\ isLoading' = FALSE                                                 \* 268
    /\ currentAssistantMessageRef' = NoMessage                            \* 269
    /\ loadingTimer' = 0
    /\ UNCHANGED <<messages, currentMessageRef, lastProcessedResponseRef,
                   responseCompletedRef, calls, clock, frames, wire,
                   connVars, envVars>>

(***************************************************************************)
(* The connection.  A socket closes: ws.onclose, lines 66-77, after        *)
(* ws.onerror, lines 79-82, when the connection failed.  What the server   *)
(* had not delivered on it is lost.  A socket that never opened closes     *)
(* with an abnormal code.                                                  *)
(***************************************************************************)
NormalClosure == 1000             \* useChatWebSocket.ts:71
AbnormalClosure == NormalClosure + 6   \* 1006: the connection was lost
CloseCodes == {NormalClosure, AbnormalClosure}

CodesOf(state) ==
    IF state \in {"CONNECTING", "FAILING"} THEN {AbnormalClosure} ELSE CloseCodes

\* The reconnect timers: the handle in the ref and the timers pending.
Timers == [ref |-> reconnectTimeoutRef, pending |-> reconnectTimers]

\* A variant that schedules a reconnect after a closure of any code.
ScheduleReconnect_AnyCode(t, i, code) == [ref |-> i, pending |-> t.pending \cup {i}]

\* Lines 70-76: the close event of socket i schedules the timer named i.
ScheduleReconnect(t, i, code) ==
    IF code # NormalClosure THEN [ref |-> i, pending |-> t.pending \cup {i}] ELSE t

OnClose(i, code) ==
    /\ sockets[i] \in {"CONNECTING", "OPEN", "CLOSING", "FAILING"}
    /\ code \in CodesOf(sockets[i])
    /\ sockets' = [sockets EXCEPT ![i] = "CLOSED"]
    /\ isConnected' = FALSE                                               \* 67, 81
    /\ reconnectTimeoutRef' = ScheduleReconnect(Timers, i, code).ref
    /\ reconnectTimers' = ScheduleReconnect(Timers, i, code).pending
    /\ wire' = (IF i = wsRef THEN <<>> ELSE wire)
    /\ UNCHANGED <<hookVars, envVars, wsRef, loadingTimer, frames>>

\* What connect() reads and writes.
Conn == [sockets |-> sockets, wsRef |-> wsRef, timers |-> reconnectTimers]

\* The identifiers a new WebSocket can take: of no socket, or of a closed
\* socket whose timer is not pending (wsRef lets go of it).
FreeSockets(c) ==
    { i \in SocketIds : c.sockets[i] = "NONE" \/ (c.sockets[i] = "CLOSED" /\ i \notin c.timers) }

NewSocket(c) == CHOOSE i \in FreeSockets(c) : \A j \in FreeSockets(c) : i <= j

\* A variant without the test of lines 39-42.
connect_Always(c) ==
    IF FreeSockets(c) = {} THEN c
    ELSE [c EXCEPT !.sockets[NewSocket(c)] = "CONNECTING", !.wsRef = NewSocket(c)]

\* connect(), lines 38-83.
connect(c) ==
    IF IsOpen(c.sockets, c.wsRef) THEN c                                  \* 39-42
    ELSE [c EXCEPT !.sockets[NewSocket(c)] = "CONNECTING",                \* 45
                   !.wsRef = NewSocket(c)]                                \* 46

CanConnect(c) == IsOpen(c.sockets, c.wsRef) \/ FreeSockets(c) # {}

\* A variant whose callback does not call connect().
ReconnectTimeout_NoConnect(t) ==
    /\ t \in reconnectTimers
    /\ reconnectTimers' = reconnectTimers \ {t}
    /\ UNCHANGED <<hookVars, envVars, isConnected, sockets, wsRef, reconnectTimeoutRef,
                   loadingTimer, frames, wire>>

\* The reconnect timer t of lines 73-75 fires; its handle stays in
\* reconnectTimeoutRef.
ReconnectTimeout(t) ==
    LET fired == [Conn EXCEPT !.timers = @ \ {t}] IN
    /\ t \in reconnectTimers
    /\ CanConnect(fired)
    /\ reconnectTimers' = fired.timers
    /\ sockets' = connect(fired).sockets
    /\ wsRef' = connect(fired).wsRef
    /\ UNCHANGED <<hookVars, envVars, isConnected, reconnectTimeoutRef, loadingTimer,
                   frames, wire>>

\* ws.onopen, lines 48-56.
OnOpen(i) ==
    /\ sockets[i] = "CONNECTING"
    /\ sockets' = [sockets EXCEPT ![i] = "OPEN"]
    /\ isConnected' = TRUE
    /\ reconnectTimeoutRef' = NoTimer                                     \* 52-55
    /\ reconnectTimers' = reconnectTimers \ {reconnectTimeoutRef}
    /\ UNCHANGED <<hookVars, envVars, wsRef, loadingTimer, frames, wire>>

\* connect() called by the host of the hook.
Connect ==
    /\ CanConnect(Conn)
    /\ sockets' = connect(Conn).sockets
    /\ wsRef' = connect(Conn).wsRef
    /\ UNCHANGED <<hookVars, envVars, isConnected, reconnectTimeoutRef, reconnectTimers,
                   loadingTimer, frames, wire>>

\* close() on a socket: WebSocket.prototype.close.
CloseSocket(state) ==
    CASE state = "CONNECTING" -> "FAILING"
      [] state = "OPEN" -> "CLOSING"
      [] OTHER -> state

\* disconnect(), lines 246-254, called by the host of the hook.  A socket
\* that is closing delivers no more messages.
Disconnect ==
    /\ sockets' = (IF wsRef # NoSocket                                    \* 247-249
                   THEN [sockets EXCEPT ![wsRef] = CloseSocket(@)]
                   ELSE sockets)
    /\ reconnectTimers' = reconnectTimers \ {reconnectTimeoutRef}         \* 250-253
    /\ reconnectTimeoutRef' = NoTimer
    /\ wire' = (IF IsOpen(sockets, wsRef) THEN <<>> ELSE wire)
    /\ UNCHANGED <<hookVars, envVars, isConnected, wsRef, loadingTimer, frames>>

\* The hook in the application, whose components call sendMessage only.
Next ==
    \/ \E content \in UserTexts : SendMessage(content)
    \/ OnMessage
    \/ LoadingTimeout
    \/ \E i \in SocketIds, code \in CloseCodes : OnClose(i, code)
    \/ \E t \in SocketIds : ReconnectTimeout(t)
    \/ \E i \in SocketIds : OnOpen(i)

(***************************************************************************)
(* The components that submit.  Each mounts a hook of its own and passes   *)
(* none of the three section consumers.                                    *)
(***************************************************************************)
InputValues == UserTexts \cup { <<Blank>> }

\* ChatPanel.tsx, lines 124-129 (the Send button and the Enter key).
handleSendMessage(inputValue) ==
    /\ ~(Trim(inputValue) = <<>> \/ isLoading)                            \* 125
    /\ SendMessage(inputValue)                                            \* 127

\* UserView.tsx, lines 354-393, with a workflow selected.  The button is
\* disabled while isWorkflowRunning, from the click to the end of the HTTP
\* request of lines 373-387, which no state of the hook delays: between two
\* clicks the hook may take any steps or none.
handleRunWorkflow ==
    \E workflowMessage \in UserTexts : SendMessage(workflowMessage)       \* 370

\* ChatPanel.tsx, lines 169-171: the messages the panel renders.
IsRendered(message) == message.sender = "user" \/ message.parsedResponse # <<>>

RenderedMessages(msgs) == SelectSeq(msgs, IsRendered)

\* ChatPanel.tsx, line 185: the text shown for a rendered message.
DisplayText(message) ==
    IF message.parsedResponse # <<>>
    THEN ContentOf(Property(message.parsedResponse[1], <<"reply">>))
    ELSE message.content

HookEvents ==
    \/ OnMessage
    \/ LoadingTimeout
    \/ \E i \in SocketIds, code \in CloseCodes : OnClose(i, code)
    \/ \E t \in SocketIds : ReconnectTimeout(t)
    \/ \E i \in SocketIds : OnOpen(i)

NextChatPanel ==
    \/ \E inputValue \in InputValues : handleSendMessage(inputValue)
    \/ HookEvents

NextUserView ==
    \/ handleRunWorkflow
    \/ HookEvents

InitHost ==
    /\ Mounted
    /\ menu \in { {UserReply}, {PlainText} }
    /\ registered = {}
    /\ throwing = {}
    /\ sendLimit = MaxSends

SpecChatPanel == InitHost /\ [][NextChatPanel]_vars

SpecUserView == InitHost /\ [][NextUserView]_vars

\* The hook with a host that calls connect() and disconnect() as well.
NextConn ==
    \/ Next
    \/ Connect
    \/ Disconnect

Spec == Init /\ [][Next]_vars

SpecRouter == InitRouter /\ [][Next]_vars

\* The conversations of SpecLive.
InitLive ==
    /\ Mounted
    /\ menu \in { {UserReply}, {PlainText} }
    /\ registered = Sections
    /\ throwing = {}
    /\ sendLimit = MaxSends

\* The conversations of SpecConn: the hook after its first render, when the
\* effect of lines 256-261 has called connect().
InitConn ==
    /\ messages = <<>>
    /\ isConnected = FALSE
    /\ sockets = [i \in SocketIds |-> IF i = 1 THEN "CONNECTING" ELSE "NONE"]
    /\ isLoading = FALSE
    /\ wsRef = 1
    /\ currentMessageRef = <<>>
    /\ currentAssistantMessageRef = NoMessage
    /\ reconnectTimeoutRef = NoTimer
    /\ reconnectTimers = {}
    /\ lastProcessedResponseRef = <<>>
    /\ responseCompletedRef = FALSE
    /\ loadingTimer = 0
    /\ calls = <<>>
    /\ frames = <<>>
    /\ wire = <<>>
    /\ clock = 1
    /\ menu = {UserReply}
    /\ registered = Sections
    /\ throwing = {}
    /\ sendLimit = MaxRouterSends

SpecConn == InitConn /\ [][NextConn]_vars

\* The timer of a pending timeout fires eventually; nothing else is assumed
\* of the server, the network or the user.
SpecLive == InitLive /\ [][Next]_vars /\ WF_vars(LoadingTimeout)

\* The conversations of SpecRecover.
InitRecover ==
    /\ Mounted
    /\ menu = {UserReply}
    /\ registered = Sections
    /\ throwing = {}
    /\ sendLimit = MaxRouterSends

\* The hook with a reconnect timer that fires once set (lines 73-75) and a
\* server that accepts a connection sooner or later: of the attempts made
\* again and again, one opens.
SpecRecover ==
    /\ InitRecover
    /\ [][Next]_vars
    /\ WF_vars(\E t \in SocketIds : ReconnectTimeout(t))
    /\ SF_vars(\E i \in SocketIds : OnOpen(i))

(***************************************************************************)
(* Vocabulary of the properties.                                           *)
(***************************************************************************)
LastMessage == messages[Len(messages)]

\* The turn message i belongs to: the user messages up to it.
TurnAt(i) == TurnOf(SubSeq(messages, 1, i))

\* A step in which the socket delivers a fragment, and the fragment.
\* (sendMessage lengthens the wire, a close of the socket empties it and the
\* other steps leave it alone.)
IsDelivery == wire' # wire /\ Len(wire') <= Len(wire) /\ sockets' = sockets
Fragment ==
    LET k == Len(wire) - Len(wire') IN
    IF SubSeq(wire, k + 1, Len(wire)) = wire' THEN SubSeq(wire, 1, k)
    ELSE Append(SubSeq(wire, 1, k), FirstPart(wire[k + 1]))

\* The text handed to JSON.parse by the delivery of a fragment that the latch
\* does not stop: every fragment since the last sendMessage, concatenated.
RawText == Concat(currentMessageRef, Fragment)

\* The server responses with a reply and a type field, as the server means
\* them (not as the hook parses them).
Envelopes ==
    { [text |-> UserReply, reply |-> <<"Hi">>, type |-> "user"],
      [text |-> EmptyReply, reply |-> <<>>, type |-> "user"],
      [text |-> LongReply, reply |-> <<Filler, Filler, "x">>, type |-> "user"],
      [text |-> UserReplyWithConfig, reply |-> <<"Hi">>, type |-> "user"],
      [text |-> ContinueReplyWithConfig, reply |-> <<"Hi">>, type |-> "continue"] }
    \cup { [text |-> AdminReply(present), reply |-> <<"Hi">>, type |-> "admin"] :
             present \in SUBSET Sections }

IsEnvelope(t) == \E e \in Envelopes : e.text = Trim(t)
EnvelopeOf(t) == CHOOSE e \in Envelopes : e.text = Trim(t)

\* Message i carries a parsedResponse.
Committed(i) == messages[i].parsedResponse # <<>>

\* The invocations of a consumer in a turn.
CallsOf(log, name, turn) ==
    Cardinality({ j \in 1..Len(log) : log[j].consumer = name /\ log[j].turn = turn })

(***************************************************************************)
(* C1: for every assistant Turn, the first or a later one, and every split *)
(* of a response with a reply and a type field into fragments, the         *)
(* fragment that completes the response closes the Turn: the latch is set, *)
(* the parsedResponse is attached, isLoading is cleared and the Turn's     *)
(* text is the reply field verbatim.                                       *)
(***************************************************************************)
C1_CompleteResponseCloses ==
    [][ (IsDelivery /\ ~responseCompletedRef /\ IsEnvelope(RawText))
        => /\ responseCompletedRef'
           /\ ~isLoading'
           /\ messages'[Len(messages')].sender = "assistant"
           /\ messages'[Len(messages')].parsedResponse # <<>>
           /\ messages'[Len(messages')].content = EnvelopeOf(RawText).reply ]_vars

(***************************************************************************)
(* C2: once the latch is set, a fragment delivered before the next         *)
(* sendMessage changes nothing: buffer, messages, isLoading, the consumer  *)
(* calls and every other field of the hook stay as they are.               *)
(***************************************************************************)
C2_LatchIgnoresFragments ==
    [][ (IsDelivery /\ responseCompletedRef) => UNCHANGED <<hookVars, loadingTimer>> ]_vars

\* A closing brace sent twice: the first closed the turn, the second came
\* after the closure and the committed reply still stands.
C2_Witness ==
    /\ menu = {UserReplyResent}
    /\ Len(frames) = 1
    /\ wire = <<>>
    /\ responseCompletedRef
    /\ Len(messages) = 2
    /\ Committed(2)
    /\ LastMessage.content = <<"Hi">>
    /\ currentMessageRef = <<"Hi">>

(***************************************************************************)
(* C3: handling the fragment that closes a Turn a second time, right after *)
(* the first, leaves the state of the first handling; a Turn carries at    *)
(* most one committed result and each consumer is invoked at most once in  *)
(* a Turn.                                                                 *)
(***************************************************************************)
C3_ClosingFragmentIdempotent ==
    /\ \A cut \in Cuts(wire) :
          LET once == handleStreamingMessage(Hook, cut[1])
              twice == handleStreamingMessage(once, cut[1])
          IN (~responseCompletedRef /\ once.responseCompletedRef) => twice = once
    /\ \A t \in 1..Len(frames) :
          /\ Cardinality({ i \in 1..Len(messages) : Committed(i) /\ TurnAt(i) = t }) <= 1
          /\ \A name \in Sections : CallsOf(calls, name, t) <= 1

\* An admin response whose closing brace was sent twice: committed, every
\* consumer invoked once, the second brace delivered.
C3_Witness ==
    /\ menu = {AdminReplyResent}
    /\ registered = Sections
    /\ throwing = {}
    /\ wire = <<>>
    /\ responseCompletedRef
    /\ Committed(Len(messages))
    /\ \A name \in Sections : CallsOf(calls, name, 1) = 1

(***************************************************************************)
(* C4: the fingerprint belongs to the session: a result closed in an       *)
(* earlier Turn never makes the hook drop the completed response of a      *)
(* later Turn, so a fragment that completes a response in a Turn without a *)
(* committed result attaches that response to the Turn.                    *)
(***************************************************************************)
C4_FingerprintPerSession ==
    [][ (IsDelivery /\ ~responseCompletedRef /\ IsEnvelope(RawText)
           /\ EnvelopeOf(RawText).reply # <<>>)
        => \E i \in 1..Len(messages') :
              /\ TurnOf(SubSeq(messages', 1, i)) = Len(frames)
              /\ messages'[i].parsedResponse # <<>> ]_vars

(***************************************************************************)
(* C5: after the timeout has closed a Turn (a request was sent, isLoading  *)
(* is false again and the latch was not set by a parse or the ceiling), no *)
(* fragment creates or modifies a Turn and no consumer is invoked.         *)
(***************************************************************************)
TimedOut == Len(frames) > 0 /\ ~isLoading /\ ~responseCompletedRef

C5_TimeoutIsFinal ==
    [][ (IsDelivery /\ TimedOut) => UNCHANGED <<messages, calls>> ]_vars

(***************************************************************************)
(* C6: a fragment that takes the buffer over 10,000 characters without a   *)
(* parse with reply and type closes the Turn by force: latch set,          *)
(* isLoading false, the Turn's text the raw text, no parsedResponse, no    *)
(* consumer invoked; a buffer of at most 10,000 characters does not.       *)
(***************************************************************************)
HasReplyAndType(t) ==
    LET p == JSONparse(Trim(t)) IN
    /\ p.ok
    /\ Property(p.v, <<"reply">>) # Undefined
    /\ Property(p.v, <<"type">>) # Undefined

C6_LengthCeiling ==
    [][ /\ (IsDelivery /\ responseCompletedRef /\ messages # <<>>
             /\ LastMessage.parsedResponse = <<>>)
           => UNCHANGED hookVars
        /\ (IsDelivery /\ ~responseCompletedRef)
           => LET raw == RawText IN
           HasReplyAndType(raw)
           \/ IF Width(raw) > MaxBufferLength
              THEN /\ responseCompletedRef'
                   /\ ~isLoading'
                   /\ currentAssistantMessageRef' = NoMessage
                   /\ messages'[Len(messages')].sender = "assistant"
                   /\ messages'[Len(messages')].content = raw
                   /\ messages'[Len(messages')].parsedResponse = <<>>
                   /\ calls' = calls
              ELSE ~responseCompletedRef' ]_vars

\* The Turn was closed at 10,001 characters with the raw text as its text;
\* the fragment that followed was ignored.
C6_Witness ==
    /\ menu = {PlainText}
    /\ wire = <<>>
    /\ responseCompletedRef
    /\ ~isLoading
    /\ Len(messages) = 2
    /\ Width(LastMessage.content) = 10001
    /\ LastMessage.parsedResponse = <<>>

(***************************************************************************)
(* C7: whatever the server and the network do (no fragment, fragments that *)
(* never parse, a completion dropped as a duplicate, a close of the socket *)
(* in mid-stream), isLoading does not stay true for ever, provided a       *)
(* started timeout timer fires.                                            *)
(***************************************************************************)
C7_LoadingEnds == isLoading ~> ~isLoading

\* The second Turn's response was dropped as a duplicate, and the timeout
\* ended the loading state.
C7_Witness ==
    /\ Len(frames) = 2
    /\ wire = <<>>
    /\ lastProcessedResponseRef = UserReply
    /\ currentMessageRef = UserReply
    /\ ~responseCompletedRef
    /\ ~isLoading
    /\ loadingTimer = 0

(***************************************************************************)
(* C8: a committed admin result invokes exactly the registered consumers   *)
(* of the sections present in its config, each once, and no other.         *)
(***************************************************************************)
SectionsOf(parsed) ==
    { name \in Sections : Property(Property(parsed, <<"config">>), <<name>>) # Undefined }

C8_RouterFanOut ==
    [][ (IsDelivery /\ ~responseCompletedRef /\ IsEnvelope(RawText)
           /\ EnvelopeOf(RawText).type = "admin")
        => \A name \in Sections :
              CallsOf(calls', name, Len(frames)) =
                 IF name \in registered /\ name \in SectionsOf(JSONparse(Trim(RawText)).v)
                 THEN 1 ELSE 0 ]_vars

(***************************************************************************)
(* C9: consumers are invoked only for committed results of kind admin: a   *)
(* Turn with consumer invocations carries a committed admin result.        *)
(***************************************************************************)
C9_OnlyAdminDispatches ==
    \A j \in 1..Len(calls) :
       \E i \in 1..Len(messages) :
          /\ TurnAt(i) = calls[j].turn
          /\ Committed(i)
          /\ Property(messages[i].parsedResponse[1], <<"type">>) = Str(<<"admin">>)

\* A committed result of kind user with an objects and a layout section,
\* both consumers registered, none invoked.
C9_Witness ==
    /\ menu = {UserReplyWithConfig}
    /\ {"objects", "layout"} \subseteq registered
    /\ Len(messages) = 2
    /\ Committed(2)
    /\ Property(messages[2].parsedResponse[1], <<"type">>) = Str(<<"user">>)
    /\ SectionsOf(messages[2].parsedResponse[1]) = {"objects", "layout"}
    /\ calls = <<>>

(***************************************************************************)
(* C10: a consumer that throws does not stop the dispatch: for a committed *)
(* admin result every registered consumer of a present section has been    *)
(* invoked, and the Turn stays committed.                                  *)
(***************************************************************************)
C10_ConsumerFailureIsolated ==
    \A i \in 1..Len(messages) :
       (Committed(i) /\ Property(messages[i].parsedResponse[1], <<"type">>) = Str(<<"admin">>))
       => /\ \A name \in registered \cap SectionsOf(messages[i].parsedResponse[1]) :
                CallsOf(calls, name, TurnAt(i)) >= 1
          /\ messages[i].content = ContentOf(Property(messages[i].parsedResponse[1], <<"reply">>))


(***************************************************************************)
(* C11: while the socket of wsRef is open, connect() returns what it was   *)
(* given, and no step constructs a WebSocket or moves wsRef.               *)
(***************************************************************************)
CurrentIsOpen == wsRef # NoSocket /\ sockets[wsRef] = "OPEN"

C11_ConnectIdempotentWhileOpen ==
    /\ [](CurrentIsOpen => connect(Conn) = Conn)
    /\ [][ CurrentIsOpen
           => /\ wsRef' = wsRef
              /\ \A i \in SocketIds : sockets'[i] = "CONNECTING" => sockets[i] = "CONNECTING"
       ]_vars

\* The socket of wsRef is open while a reconnect timer, which will call
\* connect(), is still pending.
C11_Witness == CurrentIsOpen /\ isConnected /\ reconnectTimers # {}


(***************************************************************************)
(* C12: sendMessage fails fast when the socket of wsRef is not open: a     *)
(* step that appends a user message, sets isLoading, resets the buffer and *)
(* the latch or sends a frame is taken only with an open current socket.   *)
(***************************************************************************)
C12_SendFailsFast ==
    [][ (TurnOf(messages') > TurnOf(messages) \/ frames' # frames) => CurrentIsOpen ]_vars


(***************************************************************************)
(* C13: after disconnect() no reconnect attempt occurs: the close event of *)
(* a socket that disconnect() has closed (it was open or connecting)       *)
(* schedules no reconnect timer.                                           *)
(***************************************************************************)
Disconnected(i) == sockets[i] \in {"CLOSING", "FAILING"}

C13_NoReconnectAfterDisconnect ==
    [][ \A i \in SocketIds :
           (Disconnected(i) /\ sockets'[i] = "CLOSED") => reconnectTimers' \subseteq reconnectTimers
      ]_vars


(***************************************************************************)
(* C14: each abnormal close schedules exactly one reconnect timer and a    *)
(* normal close schedules none; a pending timer belongs to a closed        *)
(* socket; a timer that fires is gone and calls connect() once: it         *)
(* constructs one socket unless the socket of wsRef is open.               *)
(***************************************************************************)
Live(i) == sockets[i] \in {"CONNECTING", "OPEN", "CLOSING", "FAILING"}

\* A step in which a reconnect timer fires: a timer goes and the handle in
\* the ref stays (disconnect() and ws.onopen clear the handle).
TimerFires ==
    /\ reconnectTimers' # reconnectTimers
    /\ reconnectTimers' \subseteq reconnectTimers
    /\ reconnectTimeoutRef' = reconnectTimeoutRef

Constructed == { i \in SocketIds : sockets'[i] = "CONNECTING" /\ sockets[i] # "CONNECTING" }

C14_OneReconnectPerAbnormalClose ==
    /\ [](\A i \in SocketIds, code \in CloseCodes :
             (Live(i) /\ code \in CodesOf(sockets[i]))
             => LET after == ScheduleReconnect(Timers, i, code) IN
                IF code # NormalClosure
                THEN /\ i \notin reconnectTimers
                     /\ after.pending = reconnectTimers \cup {i}
                     /\ after.ref = i
                ELSE after = Timers)
    /\ [](\A t \in reconnectTimers : sockets[t] = "CLOSED")
    /\ [][ TimerFires
           => /\ Cardinality(reconnectTimers \ reconnectTimers') = 1
              /\ Cardinality(Constructed) = (IF CurrentIsOpen THEN 0 ELSE 1) ]_vars

\* Socket 1 closed abnormally, its timer fired without being cancelled (the
\* handle is still in the ref) and connect() constructed a socket.
C14_Witness ==
    /\ reconnectTimeoutRef = 1
    /\ reconnectTimers = {}
    /\ sockets[1] = "CONNECTING"
    /\ wsRef = 1


(***************************************************************************)
(* C15: at most one socket is connecting or open at any moment, and a      *)
(* step that constructs a socket leaves no reconnect timer pending.        *)
(***************************************************************************)
Transports == { i \in SocketIds : sockets[i] \in {"CONNECTING", "OPEN"} }

C15_NoDoubleConnect ==
    /\ [](Cardinality(Transports) <= 1)
    /\ [][ Constructed # {} => reconnectTimers' = {} ]_vars


(***************************************************************************)
(* C16: in every reachable state at most one message of the conversation   *)
(* is in progress, that is, would be changed by the arrival of a fragment; *)
(* it is assistant-authored, carries no parsedResponse and is the last     *)
(* message of the conversation.                                            *)
(***************************************************************************)
Probe == <<"{">>

Streaming ==
    LET after == handleStreamingMessage(Hook, Probe).messages IN
    { i \in 1..Len(messages) : after[i] # messages[i] }

C16_OneTurnInProgress ==
    /\ Cardinality(Streaming) <= 1
    /\ \A i \in Streaming : /\ messages[i].sender = "assistant"
                            /\ ~Committed(i)
                            /\ i = Len(messages)

\* The Turn of the second request is in progress after the Turn of the first.
C16_Witness ==
    /\ Streaming # {}
    /\ TurnOf(messages) = 2
    /\ \E i \in 1..Len(messages) : i \notin Streaming /\ messages[i].sender = "assistant"


(***************************************************************************)
(* C17: a fragment that arrives while no assistant Turn is in progress,    *)
(* before any request was sent or after the timeout closed the Turn of the *)
(* last request, leaves the messages as they are.                          *)
(***************************************************************************)
NoTurnInProgress == Streaming = {} /\ (TurnOf(messages) = 0 \/ TimedOut)

C17_FragmentWithoutTurnIsNoOp ==
    [][ (IsDelivery /\ NoTurnInProgress) => messages' = messages ]_vars


(***************************************************************************)
(* C18: while the Turn is open (isLoading true, latch unset), a fragment   *)
(* after which the text received is no JSON object with reply and type and *)
(* is at most 10,000 characters long leaves it open: isLoading true, latch *)
(* unset, no parsedResponse attached, no consumer invoked.  An open Turn   *)
(* ends only by a fragment that completes such an object or exceeds the    *)
(* ceiling, or by the timeout.                                             *)
(***************************************************************************)
TurnOpen == isLoading /\ ~responseCompletedRef

TimeoutFires == ~isLoading' /\ loadingTimer # 0 /\ loadingTimer' = 0 /\ wire' = wire

C18_IncompleteTextKeepsTurnOpen ==
    [][ /\ (IsDelivery /\ TurnOpen /\ ~HasReplyAndType(RawText)
              /\ Width(RawText) <= MaxBufferLength)
           => /\ isLoading' /\ ~responseCompletedRef'
              /\ calls' = calls
              /\ \A i \in 1..Len(messages') :
                    messages'[i].parsedResponse # <<>> => (i <= Len(messages) /\ Committed(i))
        /\ (TurnOpen /\ ~(isLoading' /\ ~responseCompletedRef'))
           => \/ IsDelivery /\ (HasReplyAndType(RawText) \/ Width(RawText) > MaxBufferLength)
              \/ TimeoutFires
      ]_vars

\* A whole JSON object without a reply has arrived and the Turn is open.
C18_Witness ==
    /\ TurnOpen
    /\ currentMessageRef = TypeOnly
    /\ wire = <<>>
    /\ messages # <<>> /\ LastMessage.sender = "assistant" /\ LastMessage.content = TypeOnly


(***************************************************************************)
(* C19: the frame sent by sendMessage carries the whole conversation: one  *)
(* role/content pair per message, in order, ending with the user message   *)
(* just submitted.                                                         *)
(***************************************************************************)
History(msgs) ==
    [ i \in 1..Len(msgs) |->
        [ role |-> IF msgs[i].sender = "user" THEN "user" ELSE "assistant",
          content |-> msgs[i].content ] ]

C19_FrameCarriesHistory ==
    [][ frames' # frames => Last(frames') = History(messages') ]_vars


(***************************************************************************)
(* C20: while isLoading is true no submission is accepted: no user message *)
(* is appended, no frame is sent and the buffer and the latch are reset by *)
(* no step.                                                                *)
(***************************************************************************)
C20_NoSubmitWhileLoading ==
    [][ isLoading
        => /\ TurnOf(messages') = TurnOf(messages)
           /\ frames' = frames
           /\ ~IsDelivery => UNCHANGED <<currentMessageRef, responseCompletedRef>> ]_vars


(***************************************************************************)
(* C21: a fragment processed while an assistant Turn is in progress leaves *)
(* the Turn's text as the text before with the fragment appended, unless   *)
(* the fragment closes the Turn by a parse: then, and only then, the text  *)
(* is replaced by the reply of the parsed response.                        *)
(***************************************************************************)
C21_TextGrowsUntilClosure ==
    [][ (IsDelivery /\ ~responseCompletedRef)
        => \A i \in Streaming :
              IF messages'[i].parsedResponse # <<>>
              THEN /\ HasReplyAndType(RawText)
                   /\ messages'[i].content =
                         ContentOf(Property(JSONparse(Trim(RawText)).v, <<"reply">>))
              ELSE messages'[i].content = Concat(messages[i].content, Fragment) ]_vars

\* A Turn in progress whose text is the first fragments of a response.
C21_Witness ==
    /\ menu = {UserReply}
    /\ Streaming # {}
    /\ ~responseCompletedRef
    /\ Len(LastMessage.content) >= 3
    /\ LastMessage.content = SubSeq(UserReply, 1, Len(LastMessage.content))
    /\ wire # <<>>


(***************************************************************************)
(* C22: a message carries a parsedResponse only if it is assistant-        *)
(* authored and was closed by a parse: the parsedResponse has a reply and  *)
(* a type, the content is that reply, and it was attached by the fragment  *)
(* that completed the response, to the Turn in progress or the Turn that   *)
(* fragment began.  User messages and Turns closed by the ceiling or the   *)
(* timeout carry none.                                                     *)
(***************************************************************************)
ParsedResponseOf(i) == messages[i].parsedResponse[1]

C22_ParsedResponseOnlyByParse ==
    /\ [](\A i \in 1..Len(messages) :
             Committed(i)
             => /\ messages[i].sender = "assistant"
                /\ Truthy(Property(ParsedResponseOf(i), <<"type">>))
                /\ Truthy(Property(ParsedResponseOf(i), <<"reply">>))
                /\ messages[i].content = ContentOf(Property(ParsedResponseOf(i), <<"reply">>)))
    /\ [][ \A i \in 1..Len(messages') :
              (messages'[i].parsedResponse # <<>> /\ (i > Len(messages) \/ ~Committed(i)))
              => /\ IsDelivery /\ ~responseCompletedRef
                 /\ HasReplyAndType(RawText)
                 /\ messages'[i].parsedResponse = <<JSONparse(Trim(RawText)).v>>
                 /\ i \in Streaming \/ i = Len(messages) + 1
       ]_vars

\* The Turn of message 2 was closed by the timeout and carries no
\* parsedResponse; the rest of the response came late and began the Turn of
\* message 3, which the parse closed.
C22_Witness ==
    /\ Len(messages) = 3
    /\ messages[2].sender = "assistant" /\ ~Committed(2)
    /\ Committed(3) /\ messages[3].content = <<"Hi">>


(***************************************************************************)
(* C23: a timeout timer is pending exactly while isLoading is true, and    *)
(* the pending timer is the one started for the Turn of the last request:  *)
(* a timer started for one Turn does not outlive it.                       *)
(***************************************************************************)
C23_TimerPerTurn ==
    /\ loadingTimer # 0 <=> isLoading
    /\ loadingTimer # 0 => loadingTimer = TurnOf(messages)


(***************************************************************************)
(* C24: after an abnormal close (its reconnect timer is pending) the hook  *)
(* is connected again sooner or later, isConnected true and the socket of  *)
(* wsRef open, however many reconnect attempts fail before.                *)
(***************************************************************************)
C24_RecoversAfterAbnormalClose ==
    (reconnectTimers # {}) ~> (isConnected /\ CurrentIsOpen)

\* The socket closed abnormally after the request was sent, the response was
\* lost with it, and the hook is connected again.
C24_Witness ==
    /\ isConnected /\ CurrentIsOpen
    /\ reconnectTimers = {} /\ reconnectTimeoutRef = NoTimer
    /\ Len(frames) = 1
    /\ Len(messages) = 1
    /\ wire = <<>>


(***************************************************************************)
(* C25: an assistant Turn that is no longer in progress and has text, be   *)
(* it closed by a parse, the ceiling or the timeout, is among the messages *)
(* ChatPanel renders, shown with its text.                                 *)
(***************************************************************************)
C25_ClosedTurnIsDisplayed ==
    \A i \in 1..Len(messages) :
       (messages[i].sender = "assistant" /\ messages[i].content # <<>> /\ i \notin Streaming)
       => \E j \in 1..Len(RenderedMessages(messages)) :
             /\ RenderedMessages(messages)[j] = messages[i]
             /\ DisplayText(RenderedMessages(messages)[j]) = messages[i].content


(***************************************************************************)
(* C26: a consumer is invoked only by the fragment that completes a        *)
(* response, and when it is invoked the response is committed already:     *)
(* its fingerprint is recorded, the latch is set, the Turn carries the     *)
(* parsedResponse and shows its reply; the loading flag is still as it was *)
(* when the fragment arrived, so it is cleared after the dispatches.       *)
(***************************************************************************)
C26_CommitPrecedesDispatch ==
    [][ \A j \in (Len(calls) + 1)..Len(calls') :
           LET seen == calls'[j].seen
               parsed == JSONparse(Trim(RawText)).v
           IN /\ IsDelivery
              /\ HasReplyAndType(RawText)
              /\ seen.lastProcessedResponseRef = JSONstringify(parsed)
              /\ seen.responseCompletedRef
              /\ seen.message # <<>>
              /\ seen.message[1].parsedResponse = <<parsed>>
              /\ seen.message[1].content = ContentOf(Property(parsed, <<"reply">>))
              /\ seen.isLoading = isLoading
      ]_vars

\* The three consumers were invoked while the hook was loading, and the
\* loading flag is cleared.
C26_Witness ==
    /\ Len(calls) = 3
    /\ \A j \in 1..3 : calls[j].seen.isLoading /\ calls[j].seen.responseCompletedRef
    /\ ~isLoading
    /\ currentAssistantMessageRef = NoMessage


(***************************************************************************)
(* C27: isConnected is true only if the socket of wsRef is open.           *)
(***************************************************************************)
C27_ConnectedMeansOpen == isConnected => CurrentIsOpen


(***************************************************************************)
(* C28: the buffer of a Turn holds fragments of the response to the last   *)
(* request only: after every fragment that the latch lets through and that *)
(* does not close the Turn, the buffer followed by what the server has     *)
(* still to deliver is the response to the last request.                   *)
(***************************************************************************)
LatestResponse == CHOOSE answer \in menu : TRUE

C28_SessionIsolation ==
    [][ (IsDelivery /\ ~responseCompletedRef /\ ~responseCompletedRef')
        => Concat(currentMessageRef', wire') = LatestResponse ]_vars


(***************************************************************************)
(* C29: the messages only grow by appending.  An assistant Turn is open    *)
(* while it is the message in progress and the latch is unset; a parse,    *)
(* the ceiling and the timeout close it; every other message (a user       *)
(* message, a closed Turn) is changed by no step and is never open again.  *)
(***************************************************************************)
OpenTurn(i) == i = currentAssistantMessageRef /\ ~responseCompletedRef

CeilingCloses ==
    /\ IsDelivery /\ ~responseCompletedRef
    /\ ~HasReplyAndType(RawText)
    /\ Width(RawText) > MaxBufferLength

C29_ClosedTurnsImmutable ==
    [][ /\ Len(messages') >= Len(messages)
        /\ \A i \in 1..Len(messages) :
              ~OpenTurn(i) => (messages'[i] = messages[i] /\ ~OpenTurn(i)')
        /\ \A i \in 1..Len(messages') :
              (messages'[i].sender = "user" \/ messages'[i].parsedResponse # <<>>)
              => ~OpenTurn(i)'
        /\ (CeilingCloses \/ TimeoutFires) => \A i \in 1..Len(messages') : ~OpenTurn(i)'
      ]_vars

\* The Turn of message 2 was closed by the timeout with the text it had, and
\* the fragments that came late are in the Turn of message 3.
C29_Witness ==
    /\ Len(messages) = 3
    /\ messages[2].sender = "assistant" /\ messages[2].content # <<>> /\ ~Committed(2)
    /\ messages[3].sender = "assistant" /\ ~Committed(3)
    /\ Len(messages[3].content) > Len(messages[2].content)


(***************************************************************************)
(* C30: whenever the latch is set, isLoading is false and no message is in *)
(* progress in currentAssistantMessageRef.                                 *)
(***************************************************************************)
C30_LatchMeansTurnOver ==
    responseCompletedRef => (~isLoading /\ currentAssistantMessageRef = NoMessage)

=============================================================================
